---- MODULE Spec2Model ----
(***************************************************************************)
(* Model of the ShadowDom of clarity-js (src/src/clarity.ts): the mirror   *)
(* of the page DOM, the processing of one batch of MutationRecords by      *)
(* applyMutationBatch and the extraction of the mutation summary.          *)
(*                                                                         *)
(* The live tree (the page DOM) and the MutationObserver that produces the *)
(* records are the environment: live nodes are the numbers 0..NumNodes-1,  *)
(* node 0 is the document.  A mirror (shadow) node is named by its id,     *)
(* which is the index the live node received in setNodeIndex.              *)
(***************************************************************************)
EXTENDS Integers, Sequences, FiniteSets, TLC

\* ---------------------------------------------------------------- bounds
NumNodes == 4
NumKnown == 2
MaxEdits == 4
MaxBatches == 3
MaxFragment == 2
MaxCalls == 4

\* ------------------------------------------------------------- constants
Null == -1
ShadowDomRoot == -2
RemovedNodes == -3
Document == 0

FinalClassName == "cl-final"
NewNodeClassName == "cl-new"
TopNewNodeClassName == "cl-new-top"
MovedNodeClassName == "cl-moved"
UpdatedNodeClassName == "cl-updated"

\* A layout (ILayoutState) is modelled by its tag, the one part of it the ShadowDom
\* reads; NoLayout is the optional argument left out
IgnoreTag == "*IGNORE*"
NoLayout == "undefined"
Layouts == {IgnoreTag, "DIV"}

Nodes == 0 .. (NumNodes - 1)
Indices == 0 .. (NumNodes - 1)
ShadowIds == Indices \cup {ShadowDomRoot, RemovedNodes}

\* ------------------------------------------------------ sequence helpers
Range(seq) == {seq[i] : i \in 1 .. Len(seq)}

IndexOf(seq, x) == CHOOSE i \in 1 .. Len(seq) : seq[i] = x

Without(seq, x) == SelectSeq(seq, LAMBDA y : y # x)

InsertAt(seq, pos, x) == SubSeq(seq, 1, pos - 1) \o <<x>> \o SubSeq(seq, pos, Len(seq))

Reverse(seq) == [i \in 1 .. Len(seq) |-> seq[Len(seq) + 1 - i]]

\* ------------------------------------------------------------ tree views
\* parentNode of a node in a children map (the live tree or the mirror)
ParentIn(kids, x) ==
  IF \E p \in DOMAIN kids : x \in Range(kids[p])
  THEN CHOOSE p \in DOMAIN kids : x \in Range(kids[p])
  ELSE Null

NextSiblingIn(kids, x) ==
  LET p == ParentIn(kids, x) IN
  IF p = Null THEN Null
  ELSE LET i == IndexOf(kids[p], x) IN
       IF i < Len(kids[p]) THEN kids[p][i + 1] ELSE Null

PreviousSiblingIn(kids, x) ==
  LET p == ParentIn(kids, x) IN
  IF p = Null THEN Null
  ELSE LET i == IndexOf(kids[p], x) IN
       IF i > 1 THEN kids[p][i - 1] ELSE Null

RECURSIVE Flatten(_, _)
\* document order (pre-order, children left to right) of the trees rooted in seq
Flatten(kids, seq) ==
  IF seq = <<>> THEN <<>>
  ELSE <<Head(seq)>> \o Flatten(kids, kids[Head(seq)]) \o Flatten(kids, Tail(seq))

TraverseNodeTree(kids, root) == Flatten(kids, <<root>>)

Descendants(kids, x) == Range(Flatten(kids, kids[x]))

InclusiveDescendants(kids, x) == Range(TraverseNodeTree(kids, x))

\* ------------------------------------------------- index registry, lookup
\* getNodeIndex: node[NodeIndex] when the node carries one, null otherwise
GetNodeIndex(s, node) == IF node = Null THEN Null ELSE s.nodeIndex[node]

\* getShadowNode: doc.getElementById("" + index); found while the mirror node is
\* below shadowDomRoot, or below removedNodes while removedNodes is attached to the
\* mirror document, which it is while the records of a batch are processed (lines
\* 140-182, where classifyNodes is true)
GetShadowNode(s, index) ==
  IF /\ index # Null /\ index \in Indices
     /\ ParentIn(s.kids, index) # Null
     /\ (s.classifyNodes \/ index \in Descendants(s.kids, ShadowDomRoot))
  THEN index ELSE Null

HasClass(s, shadowNode, className) ==
  IF shadowNode # Null THEN className \in s.classes[shadowNode] ELSE FALSE

SetClass(s, shadowNode, className) ==
  IF shadowNode # Null
  THEN [s EXCEPT !.classes[shadowNode] = @ \cup {className}]
  ELSE s

RemoveClass(s, shadowNode, className) ==
  IF shadowNode # Null
  THEN [s EXCEPT !.classes[shadowNode] = @ \ {className}]
  ELSE s

RemoveAllClasses(s, shadowNode) ==
  IF shadowNode # Null THEN [s EXCEPT !.classes[shadowNode] = {}] ELSE s

\* a setNodeIndex that hands out nextIndex and leaves the counter where it is
SetNodeIndexKeepingCounter(s, node) ==
  IF GetNodeIndex(s, node) = Null
  THEN [s EXCEPT !.nodeIndex[node] = s.nextIndex]
  ELSE s

\* setNodeIndex: the node keeps its index, a node without one takes nextIndex
SetNodeIndex(s, node) ==
  IF GetNodeIndex(s, node) = Null
  THEN [s EXCEPT !.nodeIndex[node] = s.nextIndex, !.nextIndex = s.nextIndex + 1]
  ELSE s

\* ---------------------------------------------------- DOM child placement
\* parent.insertBefore(shadowNode, nextSibling) / parent.appendChild(shadowNode) of
\* the mirror document.  The DOM throws when parent lies inside shadowNode's own
\* subtree and when nextSibling is not a child of parent.
PlaceThrows(s, shadowNode, parent, nextSibling) ==
  \/ parent \in InclusiveDescendants(s.kids, shadowNode)
  \/ nextSibling # Null /\ ParentIn(s.kids, nextSibling) # parent

Place(s, shadowNode, parent, nextSibling) ==
  IF PlaceThrows(s, shadowNode, parent, nextSibling)
  THEN [s EXCEPT !.threw = TRUE]
  ELSE IF nextSibling = shadowNode THEN s
  ELSE LET old == ParentIn(s.kids, shadowNode)
           k1 == IF old = Null THEN s.kids
                 ELSE [s.kids EXCEPT ![old] = Without(@, shadowNode)]
           k2 == IF nextSibling # Null
                 THEN [k1 EXCEPT ![parent] = InsertAt(@, IndexOf(@, nextSibling), shadowNode)]
                 ELSE [k1 EXCEPT ![parent] = Append(@, shadowNode)]
       IN [s EXCEPT !.kids = k2]

\* --------------------------------------------------- mirror tree operations
\* an insertShadowNode that takes the ignore flag from the node's own layout alone
InsertShadowNodeOwnTagOnly(s, node, parentIndex, nextSiblingIndex, layout) ==
  LET isDocument == (node = Document)
      s1 == SetNodeIndex(s, node)
      index == s1.nodeIndex[node]
      parent == IF isDocument THEN ShadowDomRoot ELSE GetShadowNode(s1, parentIndex)
      nextSibling == GetShadowNode(s1, nextSiblingIndex)
      s2 == [s1 EXCEPT !.node[index] = node,
                       !.layout[index] = layout,
                       !.ignore[index] = (layout # NoLayout /\ layout = IgnoreTag),
                       !.shadowDocument = IF isDocument THEN index ELSE @]
      s3 == IF s2.classifyNodes
            THEN LET t == SetClass(s2, index, NewNodeClassName) IN
                 IF ~HasClass(t, parent, NewNodeClassName)
                 THEN SetClass(t, index, TopNewNodeClassName)
                 ELSE t
            ELSE s2
  IN IF parent = Null THEN s1
     ELSE Place(s3, index, parent, nextSibling)

InsertShadowNode(s, node, parentIndex, nextSiblingIndex, layout) ==
  LET isDocument == (node = Document)
      s1 == SetNodeIndex(s, node)
      index == s1.nodeIndex[node]
      parent == IF isDocument THEN ShadowDomRoot ELSE GetShadowNode(s1, parentIndex)
      nextSibling == GetShadowNode(s1, nextSiblingIndex)
      ignore == IF isDocument \/ parent = Null THEN FALSE ELSE s1.ignore[parent]
      s2 == [s1 EXCEPT !.node[index] = node,
                       !.layout[index] = layout,
                       !.ignore[index] = (layout # NoLayout /\ layout = IgnoreTag) \/ ignore,
                       !.shadowDocument = IF isDocument THEN index ELSE @]
      s3 == IF s2.classifyNodes
            THEN LET t == SetClass(s2, index, NewNodeClassName) IN
                 IF ~HasClass(t, parent, NewNodeClassName)
                 THEN SetClass(t, index, TopNewNodeClassName)
                 ELSE t
            ELSE s2
  IN IF parent = Null THEN s1
     ELSE Place(s3, index, parent, nextSibling)

\* a moveShadowNode that always appends the node as last child of the new parent
MoveShadowNodeAppending(s, index, newParentIndex, newNextSiblingIndex) ==
  LET shadowNode == GetShadowNode(s, index)
      parent == GetShadowNode(s, newParentIndex)
      s1 == IF s.classifyNodes
            THEN LET t == SetClass(s, shadowNode, MovedNodeClassName) IN
                 IF HasClass(t, parent, NewNodeClassName)
                 THEN RemoveClass(t, shadowNode, TopNewNodeClassName)
                 ELSE SetClass(t, shadowNode, TopNewNodeClassName)
            ELSE s
  IN IF ~(parent # Null /\ shadowNode # Null) THEN s
     ELSE Place(s1, shadowNode, parent, Null)

MoveShadowNode(s, index, newParentIndex, newNextSiblingIndex) ==
  LET shadowNode == GetShadowNode(s, index)
      parent == GetShadowNode(s, newParentIndex)
      nextSibling == GetShadowNode(s, newNextSiblingIndex)
      s1 == IF s.classifyNodes
            THEN LET t == SetClass(s, shadowNode, MovedNodeClassName) IN
                 IF HasClass(t, parent, NewNodeClassName)
                 THEN RemoveClass(t, shadowNode, TopNewNodeClassName)
                 ELSE SetClass(t, shadowNode, TopNewNodeClassName)
            ELSE s
  IN IF ~(parent # Null /\ shadowNode # Null) THEN s
     ELSE Place(s1, shadowNode, parent, nextSibling)

UpdateShadowNode(s, index, newLayout) ==
  LET shadowNode == GetShadowNode(s, index)
      s1 == IF newLayout # NoLayout
            THEN [s EXCEPT !.layout[shadowNode] = newLayout,
                           !.ignore[shadowNode] = (newLayout = IgnoreTag)]
            ELSE s
  IN IF shadowNode = Null THEN s
     ELSE IF s.classifyNodes THEN SetClass(s1, shadowNode, UpdatedNodeClassName) ELSE s1

\* a removeShadowNode that drops the mirror node at once instead of keeping it in the
\* holding area
RemoveShadowNodeDiscarding(s, index) ==
  LET shadowNode == GetShadowNode(s, index)
      old == ParentIn(s.kids, shadowNode)
  IN IF shadowNode = Null THEN s
     ELSE [s EXCEPT !.kids[old] = Without(@, shadowNode)]

RemoveShadowNode(s, index) ==
  LET shadowNode == GetShadowNode(s, index) IN
  IF shadowNode = Null THEN s
  ELSE Place(s, shadowNode, RemovedNodes, Null)

\* a shouldProcessChildListMutation that does not look at the final class
ShouldProcessIgnoringFinal(s, child, parent) ==
  LET childNodeIndex == GetNodeIndex(s, child)
      parentIndex == GetNodeIndex(s, parent)
      parentShadowNode ==
        IF childNodeIndex = Null THEN GetShadowNode(s, parentIndex)
        ELSE LET childShadowNode == GetShadowNode(s, childNodeIndex) IN
             IF childShadowNode = Null THEN Null ELSE ParentIn(s.kids, childShadowNode)
  IN parentShadowNode # Null

\* ------------------------------------------------ child-list classification
\* shouldProcessChildListMutation: false when the parent to look at is missing or
\* carries the final class.  For a node without index the parent is the record's
\* target, for a node with an index it is the current parent of its mirror node.
ShouldProcessChildListMutation(s, child, parent) ==
  LET childNodeIndex == GetNodeIndex(s, child)
      parentIndex == GetNodeIndex(s, parent)
      parentShadowNode ==
        IF childNodeIndex = Null THEN GetShadowNode(s, parentIndex)
        ELSE LET childShadowNode == GetShadowNode(s, childNodeIndex) IN
             IF childShadowNode = Null THEN Null ELSE ParentIn(s.kids, childShadowNode)
  IN parentShadowNode # Null /\ ~HasClass(s, parentShadowNode, FinalClassName)

RECURSIVE ApplyInsert(_, _, _, _, _, _, _)
RECURSIVE DiscoverChildren(_, _, _, _)

\* the loop over addedNode's live children, lastChild first (lines 315-319);
\* j is the position of nextChild in the live child list
DiscoverChildren(s, live, addedNode, j) ==
  IF j = 0 THEN s
  ELSE LET nextChild == live[addedNode][j]
           s1 == ApplyInsert(s, live, nextChild, addedNode,
                             PreviousSiblingIn(live, nextChild), NextSiblingIn(live, nextChild), TRUE)
       IN DiscoverChildren(s1, live, addedNode, j - 1)

\* applyInsert; a state that has thrown is passed through unchanged (the exception
\* leaves applyMutationBatch)
ApplyInsert(s, live, addedNode, parent, previousSibling, nextSibling, force) ==
  IF s.threw THEN s
  ELSE
  LET addedNodeIndex == GetNodeIndex(s, addedNode)
      parentIndex == GetNodeIndex(s, parent)
      nextSiblingIndex == GetNodeIndex(s, nextSibling)
      validMutation == ShouldProcessChildListMutation(s, addedNode, parent) \/ force
  IN IF ~validMutation THEN s
     ELSE IF addedNodeIndex = Null
     THEN LET s1 == InsertShadowNode(s, addedNode, parentIndex, nextSiblingIndex, NoLayout)
              shadowNode == IF GetShadowNode(s, parentIndex) = Null THEN Null
                            ELSE s1.nodeIndex[addedNode]
              s2 == IF s1.threw THEN s1 ELSE SetClass(s1, shadowNode, FinalClassName)
          IN DiscoverChildren(s2, live, addedNode, Len(live[addedNode]))
     ELSE MoveShadowNode(s, addedNodeIndex, parentIndex, nextSiblingIndex)

ApplyRemove(s, removedNode, parent) ==
  IF s.threw THEN s
  ELSE
  LET removedNodeIndex == GetNodeIndex(s, removedNode) IN
  IF removedNodeIndex # Null /\ ShouldProcessChildListMutation(s, removedNode, parent)
  THEN RemoveShadowNode(s, removedNodeIndex)
  ELSE s

\* an applyUpdate that gives the target an index before it looks for its mirror node
ApplyUpdateIndexing(s, updatedNode) ==
  IF s.threw THEN s
  ELSE UpdateShadowNode(SetNodeIndex(s, updatedNode), SetNodeIndex(s, updatedNode).nodeIndex[updatedNode], NoLayout)

ApplyUpdate(s, updatedNode) ==
  IF s.threw THEN s
  ELSE
  LET updatedNodeIndex == GetNodeIndex(s, updatedNode) IN
  IF updatedNodeIndex # Null THEN UpdateShadowNode(s, updatedNodeIndex, NoLayout) ELSE s

\* ------------------------------------------------------- mutation records
ChildListRecord(target, added, removed, prev, next) ==
  [type |-> "childList", target |-> target, addedNodes |-> added,
   removedNodes |-> removed, previousSibling |-> prev, nextSibling |-> next]

AttributesRecord(target) ==
  [type |-> "attributes", target |-> target, addedNodes |-> <<>>,
   removedNodes |-> <<>>, previousSibling |-> Null, nextSibling |-> Null]

RECURSIVE ProcessInserts(_, _, _, _)
\* the loop over mutation.addedNodes, last to first (lines 157-168)
ProcessInserts(s, live, mutation, j) ==
  IF j = 0 THEN s
  ELSE LET addedLength == Len(mutation.addedNodes)
           previous == IF j > 1 THEN mutation.addedNodes[j - 1] ELSE mutation.previousSibling
           next == IF j < addedLength THEN mutation.addedNodes[j + 1] ELSE mutation.nextSibling
           s1 == ApplyInsert(s, live, mutation.addedNodes[j], mutation.target, previous, next, FALSE)
       IN ProcessInserts(s1, live, mutation, j - 1)

RECURSIVE ProcessRemoves(_, _, _)
\* the loop over mutation.removedNodes, first to last (lines 171-174)
ProcessRemoves(s, mutation, j) ==
  IF j > Len(mutation.removedNodes) THEN s
  ELSE ProcessRemoves(ApplyRemove(s, mutation.removedNodes[j], mutation.target), mutation, j + 1)

\* the body of the loop over the records (lines 145-178)
ApplyMutation(s, live, mutation) ==
  IF mutation.type = "childList"
  THEN ProcessRemoves(ProcessInserts(s, live, mutation, Len(mutation.addedNodes)), mutation, 1)
  ELSE ApplyUpdate(s, mutation.target)

RECURSIVE ApplyMutations(_, _, _, _)
ApplyMutations(s, live, mutations, i) ==
  IF i > Len(mutations) THEN s
  ELSE ApplyMutations(ApplyMutation(s, live, mutations[i]), live, mutations, i + 1)

\* ------------------------------------------------------- mutation summary
\* a getElementsByClassName that answers in reverse document order
ElementsByClassNameReversed(s, className) ==
  Reverse(SelectSeq(Flatten(s.kids, s.kids[ShadowDomRoot]), LAMBDA x : className \in s.classes[x]))

\* a getElementsByClassName that searches the holding area too
ElementsByClassNameWithHoldingArea(s, className) ==
  SelectSeq(Flatten(s.kids, s.kids[ShadowDomRoot] \o s.kids[RemovedNodes]),
            LAMBDA x : className \in s.classes[x])

\* doc.getElementsByClassName(className): the mirror nodes below shadowDomRoot that
\* carry the class, in document order (removedNodes is detached from the mirror
\* document when the summary is taken, line 182)
ElementsByClassName(s, className) ==
  SelectSeq(Flatten(s.kids, s.kids[ShadowDomRoot]), LAMBDA x : className \in s.classes[x])

EmptySummary == [newNodes |-> <<>>, movedNodes |-> <<>>, updatedNodes |-> <<>>, removedNodes |-> <<>>]

RECURSIVE DiscoverQueue(_, _)
\* the inner loop of lines 262-273: r is [s, newNodes], queue the discoverQueue
DiscoverQueue(r, queue) ==
  IF queue = <<>> THEN r
  ELSE LET next == Head(queue) IN
       IF HasClass(r.s, next, NewNodeClassName)
       THEN DiscoverQueue([s |-> RemoveClass(r.s, next, NewNodeClassName),
                           newNodes |-> Append(r.newNodes, next)],
                          Tail(queue) \o Reverse(r.s.kids[next]))
       ELSE DiscoverQueue(r, Tail(queue))

RECURSIVE CollectNewNodes(_)
\* the outer loop of lines 258-274
CollectNewNodes(r) ==
  LET topNewNodes == ElementsByClassName(r.s, NewNodeClassName) IN
  IF topNewNodes = <<>> THEN r
  ELSE CollectNewNodes(DiscoverQueue(r, <<topNewNodes[1]>>))

RECURSIVE CollectByClass(_, _)
\* the loops of lines 276-281 and 283-288: r is [s, nodes]
CollectByClass(r, className) ==
  LET found == ElementsByClassName(r.s, className) IN
  IF found = <<>> THEN r
  ELSE CollectByClass([s |-> RemoveAllClasses(r.s, found[1]),
                       nodes |-> Append(r.nodes, found[1])], className)

\* a getMutationSummary that reports every member of the holding area as removed
GetMutationSummaryAllRemoved(s) ==
  LET n == CollectNewNodes([s |-> s, newNodes |-> <<>>])
      m == CollectByClass([s |-> n.s, nodes |-> <<>>], MovedNodeClassName)
      u == CollectByClass([s |-> m.s, nodes |-> <<>>], UpdatedNodeClassName)
  IN [s |-> u.s,
      summary |-> [newNodes |-> n.newNodes, movedNodes |-> m.nodes,
                   updatedNodes |-> u.nodes, removedNodes |-> u.s.kids[RemovedNodes]]]

GetMutationSummary(s) ==
  LET n == CollectNewNodes([s |-> s, newNodes |-> <<>>])
      m == CollectByClass([s |-> n.s, nodes |-> <<>>], MovedNodeClassName)
      u == CollectByClass([s |-> m.s, nodes |-> <<>>], UpdatedNodeClassName)
      removed == SelectSeq(u.s.kids[RemovedNodes],
                           LAMBDA x : ~HasClass(u.s, x, NewNodeClassName))
  IN [s |-> u.s,
      summary |-> [newNodes |-> n.newNodes, movedNodes |-> m.nodes,
                   updatedNodes |-> u.nodes, removedNodes |-> removed]]

\* a clean-up that leaves the final class on the mirror nodes
CleanUpKeepingFinal(s) ==
  LET dropped == Descendants(s.kids, RemovedNodes)
  IN [s EXCEPT
        !.classes = [x \in ShadowIds |-> IF x \in dropped THEN {} ELSE s.classes[x]],
        !.kids = [x \in ShadowIds |->
                    IF x \in dropped \/ x = RemovedNodes THEN <<>> ELSE s.kids[x]],
        !.classifyNodes = FALSE]

\* ------------------------------------------------------------ batch
\* lines 187-193: the final class is taken from every mirror node of the mirror
\* document, the content of removedNodes is dropped, classification is switched off
CleanUp(s) ==
  LET dropped == Descendants(s.kids, RemovedNodes)
      attached == Descendants(s.kids, ShadowDomRoot)
  IN [s EXCEPT
        !.classes = [x \in ShadowIds |->
                       IF x \in dropped THEN {}
                       ELSE IF x \in attached THEN s.classes[x] \ {FinalClassName}
                       ELSE s.classes[x]],
        !.kids = [x \in ShadowIds |->
                    IF x \in dropped \/ x = RemovedNodes THEN <<>> ELSE s.kids[x]],
        !.classifyNodes = FALSE]

\* applyMutationBatch: [s, summary, returned]; returned is FALSE when a DOM call of
\* the mirror document threw, and the state is then the one the exception left
ApplyMutationBatch(s, live, mutations) ==
  LET s1 == ApplyMutations([s EXCEPT !.classifyNodes = TRUE], live, mutations, 1) IN
  IF s1.threw
  THEN [s |-> [s1 EXCEPT !.threw = FALSE], summary |-> EmptySummary, returned |-> FALSE]
  ELSE LET r == GetMutationSummary(s1) IN
       [s |-> CleanUp(r.s), summary |-> r.summary, returned |-> TRUE]

\* a mirrorsRealDom that compares the lengths of the two index lists only
MirrorsRealDomByLength(s, live) ==
  Len(TraverseNodeTree(live, Document)) = Len(TraverseNodeTree(s.kids, s.shadowDocument))

\* mirrorsRealDom: the indices of the page's nodes and of the mirror nodes' live nodes,
\* both in document order, are compared position by position when the lists are
\* equally long (lines 214-222)
MirrorsRealDom(s, live) ==
  LET domNodes == TraverseNodeTree(live, Document)
      domIndices == [i \in 1 .. Len(domNodes) |-> GetNodeIndex(s, domNodes[i])]
      shadowNodes == TraverseNodeTree(s.kids, s.shadowDocument)
      shadowDomIndices == [i \in 1 .. Len(shadowNodes) |-> GetNodeIndex(s, s.node[shadowNodes[i]])]
  IN IF Len(domIndices) = Len(shadowDomIndices)
     THEN \A i \in 1 .. Len(domIndices) : domIndices[i] = shadowDomIndices[i]
     ELSE FALSE

\* ------------------------------------------------------------ state
VARIABLES
  live,            \* the page DOM: live[n] is the child list of live node n
  nodeIndex,       \* node[NodeIndex] of every live node, Null when it has none
  nextIndex,       \* ShadowDom.nextIndex
  kids,            \* child lists of the mirror nodes, of shadowDomRoot and removedNodes
  classes,         \* classList of every mirror node
  node,            \* shadowNode.node
  layout,          \* shadowNode.layout
  ignore,          \* shadowNode.ignore
  shadowDocument,  \* ShadowDom.shadowDocument
  classifyNodes,   \* ShadowDom.classifyNodes
  mutations,       \* the records the MutationObserver has queued for the next callback
  transient,       \* nodes removed from an observed tree since the last callback
  summary,         \* what the last applyMutationBatch returned
  returned,        \* FALSE when the last applyMutationBatch ended by an exception
  edits,           \* live-tree edits so far
  batches          \* callbacks so far

vars == <<live, nodeIndex, nextIndex, kids, classes, node, layout, ignore, shadowDocument,
          classifyNodes, mutations, transient, summary, returned, edits, batches>>

\* the ShadowDom object together with the index property of the live nodes
State ==
  [nodeIndex |-> nodeIndex, nextIndex |-> nextIndex, kids |-> kids, classes |-> classes,
   node |-> node, layout |-> layout, ignore |-> ignore, shadowDocument |-> shadowDocument,
   classifyNodes |-> classifyNodes, threw |-> FALSE]

\* the ShadowDom after construction (lines 27-37), no live node carries an index
Constructed ==
  [nodeIndex |-> [n \in Nodes |-> Null], nextIndex |-> 0,
   kids |-> [x \in ShadowIds |-> <<>>], classes |-> [x \in ShadowIds |-> {}],
   node |-> [x \in Indices |-> Null], layout |-> [x \in Indices |-> NoLayout],
   ignore |-> [x \in Indices |-> FALSE], shadowDocument |-> Null, classifyNodes |-> FALSE,
   threw |-> FALSE]

RECURSIVE DiscoverDom(_, _, _, _)
\* the initial discovery of the page: insertShadowNode for every node of the
\* document, in document order, before any batch; the page of the model has no node
\* whose layout carries the ignore tag
DiscoverDom(s, tree, order, i) ==
  IF i > Len(order) THEN s
  ELSE DiscoverDom(InsertShadowNode(s, order[i], GetNodeIndex(s, ParentIn(tree, order[i])),
                                    GetNodeIndex(s, NextSiblingIn(tree, order[i])), "DIV"),
                   tree, order, i + 1)

RECURSIVE SortedSeq(_)
SortedSeq(S) ==
  IF S = {} THEN <<>>
  ELSE LET m == CHOOSE x \in S : \A y \in S : x <= y IN <<m>> \o SortedSeq(S \ {m})

\* the pages the model starts from: nodes 0..NumKnown-1 form a tree below the
\* document; the other nodes are created but not attached, each on its own or all
\* of them in one chain (a subtree built before it is put into the page)
InitialTrees ==
  {[n \in Nodes |->
      IF n < NumKnown THEN SortedSeq({c \in 1 .. (NumKnown - 1) : par[c] = n})
      ELSE IF chain /\ n + 1 < NumNodes THEN <<n + 1>> ELSE <<>>] :
     par \in {f \in [1 .. (NumKnown - 1) -> 0 .. (NumKnown - 1)] :
                \A c \in 1 .. (NumKnown - 1) : f[c] < c},
     chain \in BOOLEAN}

\* the state after construction and the discovery of the page tree
InitFrom(tree) ==
  LET s == DiscoverDom(Constructed, tree, TraverseNodeTree(tree, Document), 1) IN
  /\ live = tree
  /\ nodeIndex = s.nodeIndex
  /\ nextIndex = s.nextIndex
  /\ kids = s.kids
  /\ classes = s.classes
  /\ node = s.node
  /\ layout = s.layout
  /\ ignore = s.ignore
  /\ shadowDocument = s.shadowDocument
  /\ classifyNodes = s.classifyNodes
  /\ mutations = <<>>
  /\ transient = {}
  /\ summary = EmptySummary
  /\ returned = TRUE
  /\ edits = 0
  /\ batches = 0

Init == \E tree \in InitialTrees : InitFrom(tree)

\* an empty page: the document alone is known; the other nodes are created but not
\* attached, each on its own or as one subtree with node 1 as the parent of the rest
FreshTrees ==
  {[n \in Nodes |-> IF subtree /\ n = 1 THEN [i \in 1 .. (NumNodes - 2) |-> i + 1] ELSE <<>>] :
     subtree \in BOOLEAN}

InitFresh == \E tree \in FreshTrees : InitFrom(tree)

\* ------------------------------------------------------------ environment
\* a MutationObserver on the document with subtree: a mutation of target is queued
\* when target lies in the document or in a subtree removed from an observed tree
\* since the last callback (transient registered observers)
Observed(tree, trans, target) ==
  \E a \in {Document} \cup trans : target \in InclusiveDescendants(tree, a)

\* An exception that leaves applyMutationBatch ends the run: the mirror is out of
\* step with the page until the caller resynchronises it, which is not modelled.
CanEdit == returned /\ edits < MaxEdits /\ batches < MaxBatches

\* parent.insertBefore(n, ref) / parent.appendChild(n) on the page: n leaves its old
\* parent (one record) and enters parent at position pos (one record)
InsertBefore(n, parent, pos) ==
  LET old == ParentIn(live, n)
      removal == IF old # Null /\ Observed(live, transient, old)
                 THEN <<ChildListRecord(old, <<>>, <<n>>,
                                        PreviousSiblingIn(live, n), NextSiblingIn(live, n))>>
                 ELSE <<>>
      live1 == IF old = Null THEN live ELSE [live EXCEPT ![old] = Without(@, n)]
      trans1 == IF removal # <<>> THEN transient \cup {n} ELSE transient
      prev == IF pos > 1 THEN live1[parent][pos - 1] ELSE Null
      next == IF pos <= Len(live1[parent]) THEN live1[parent][pos] ELSE Null
      addition == IF Observed(live1, trans1, parent)
                  THEN <<ChildListRecord(parent, <<n>>, <<>>, prev, next)>>
                  ELSE <<>>
  IN /\ CanEdit
     /\ n # Document
     /\ parent \notin InclusiveDescendants(live, n)
     /\ pos \in 1 .. (Len(live1[parent]) + 1)
     /\ live' = [live1 EXCEPT ![parent] = InsertAt(@, pos, n)]
     /\ transient' = trans1
     /\ mutations' = mutations \o removal \o addition
     /\ edits' = edits + 1
     /\ UNCHANGED <<nodeIndex, nextIndex, kids, classes, node, layout, ignore, shadowDocument,
                    classifyNodes, summary, returned, batches>>

\* the detached nodes a DocumentFragment can be filled with: they have no parent
Detached == {n \in Nodes \ {Document} : ParentIn(live, n) = Null}

\* the sequences of 2 .. MaxFragment distinct detached nodes
Fragments ==
  UNION {{f \in [1 .. k -> Detached] : \A i, j \in 1 .. k : i # j => f[i] # f[j]} :
           k \in 2 .. MaxFragment}

\* parent.insertBefore(fragment, ref) on the page with a DocumentFragment that holds
\* the nodes of frag: they enter parent at position pos in one record
InsertFragment(frag, parent, pos) ==
  LET prev == IF pos > 1 THEN live[parent][pos - 1] ELSE Null
      next == IF pos <= Len(live[parent]) THEN live[parent][pos] ELSE Null
  IN /\ CanEdit
     /\ \A i \in 1 .. Len(frag) : parent \notin InclusiveDescendants(live, frag[i])
     /\ pos \in 1 .. (Len(live[parent]) + 1)
     /\ live' = [live EXCEPT ![parent] = SubSeq(@, 1, pos - 1) \o frag \o SubSeq(@, pos, Len(@))]
     /\ mutations' = IF Observed(live, transient, parent)
                     THEN Append(mutations, ChildListRecord(parent, frag, <<>>, prev, next))
                     ELSE mutations
     /\ edits' = edits + 1
     /\ UNCHANGED <<transient, nodeIndex, nextIndex, kids, classes, node, layout, ignore,
                    shadowDocument, classifyNodes, summary, returned, batches>>

\* parent.removeChild(n) on the page
RemoveChild(n) ==
  LET old == ParentIn(live, n)
      seen == Observed(live, transient, old)
  IN /\ CanEdit
     /\ old # Null
     /\ live' = [live EXCEPT ![old] = Without(@, n)]
     /\ transient' = IF seen THEN transient \cup {n} ELSE transient
     /\ mutations' = IF seen
                     THEN Append(mutations, ChildListRecord(old, <<>>, <<n>>,
                                   PreviousSiblingIn(live, n), NextSiblingIn(live, n)))
                     ELSE mutations
     /\ edits' = edits + 1
     /\ UNCHANGED <<nodeIndex, nextIndex, kids, classes, node, layout, ignore, shadowDocument,
                    classifyNodes, summary, returned, batches>>

\* n.setAttribute(...) or a text change on an observed node of the page
SetAttribute(n) ==
  /\ CanEdit
  /\ Observed(live, transient, n)
  /\ mutations' = Append(mutations, AttributesRecord(n))
  /\ edits' = edits + 1
  /\ UNCHANGED <<live, transient, nodeIndex, nextIndex, kids, classes, node, layout, ignore,
                 shadowDocument, classifyNodes, summary, returned, batches>>

\* the MutationObserver callback: the queued records go to applyMutationBatch
ApplyBatch ==
  /\ returned
  /\ mutations # <<>>
  /\ batches < MaxBatches
  /\ \E r \in {ApplyMutationBatch(State, live, mutations)} :
     /\ nodeIndex' = r.s.nodeIndex
     /\ nextIndex' = r.s.nextIndex
     /\ kids' = r.s.kids
     /\ classes' = r.s.classes
     /\ node' = r.s.node
     /\ layout' = r.s.layout
     /\ ignore' = r.s.ignore
     /\ shadowDocument' = r.s.shadowDocument
     /\ classifyNodes' = r.s.classifyNodes
     /\ summary' = r.summary
     /\ returned' = r.returned
  /\ mutations' = <<>>
  /\ transient' = {}
  /\ batches' = batches + 1
  /\ UNCHANGED <<live, edits>>

Next ==
  \/ \E n \in Nodes, parent \in Nodes, pos \in 1 .. NumNodes : InsertBefore(n, parent, pos)
  \/ \E n \in Nodes : RemoveChild(n)
  \/ \E n \in Nodes : SetAttribute(n)
  \/ ApplyBatch

Spec == Init /\ [][Next]_vars

\* the page edited with DocumentFragments too; attribute edits, which place no mirror
\* node, are left out
NextFragment ==
  \/ \E frag \in Fragments, parent \in Nodes, pos \in 1 .. NumNodes : InsertFragment(frag, parent, pos)
  \/ \E n \in Nodes, parent \in Nodes, pos \in 1 .. NumNodes : InsertBefore(n, parent, pos)
  \/ \E n \in Nodes : RemoveChild(n)
  \/ ApplyBatch

SpecFragment == Init /\ [][NextFragment]_vars

\* the same edits and callbacks on a page that starts empty
SpecFresh == InitFresh /\ [][Next]_vars

\* ------------------------------------------------- the public methods called
\* The ShadowDom after a call of one of its public methods by its owner, outside
\* applyMutationBatch: s is what the call has made of State.  A call that ends by a
\* DOM exception is not taken.
Called(s) ==
  /\ returned
  /\ edits < MaxCalls
  /\ ~s.threw
  /\ nodeIndex' = s.nodeIndex
  /\ nextIndex' = s.nextIndex
  /\ kids' = s.kids
  /\ classes' = s.classes
  /\ node' = s.node
  /\ layout' = s.layout
  /\ ignore' = s.ignore
  /\ shadowDocument' = s.shadowDocument
  /\ classifyNodes' = s.classifyNodes
  /\ edits' = edits + 1
  /\ UNCHANGED <<live, mutations, transient, summary, returned, batches>>

\* shadowDom.insertShadowNode(n, parentIndex, nextSiblingIndex, lay) for a live node
\* that has no mirror node
InsertShadowNodeCall(n, parentIndex, nextSiblingIndex, lay) ==
  /\ nodeIndex[n] # Null => ParentIn(kids, nodeIndex[n]) = Null
  /\ Called(InsertShadowNode(State, n, parentIndex, nextSiblingIndex, lay))

MoveShadowNodeCall(index, newParentIndex, newNextSiblingIndex) ==
  Called(MoveShadowNode(State, index, newParentIndex, newNextSiblingIndex))

UpdateShadowNodeCall(index, newLayout) ==
  Called(UpdateShadowNode(State, index, newLayout))

RemoveShadowNodeCall(index) ==
  Called(RemoveShadowNode(State, index))

\* the state after construction (lines 27-37): nothing of the page is discovered
InitConstructed ==
  /\ live \in InitialTrees
  /\ nodeIndex = Constructed.nodeIndex
  /\ nextIndex = Constructed.nextIndex
  /\ kids = Constructed.kids
  /\ classes = Constructed.classes
  /\ node = Constructed.node
  /\ layout = Constructed.layout
  /\ ignore = Constructed.ignore
  /\ shadowDocument = Constructed.shadowDocument
  /\ classifyNodes = Constructed.classifyNodes
  /\ mutations = <<>>
  /\ transient = {}
  /\ summary = EmptySummary
  /\ returned = TRUE
  /\ edits = 0
  /\ batches = 0

NextCalls ==
  \/ \E n \in Nodes, parentIndex, nextSiblingIndex \in Indices \cup {Null},
        lay \in Layouts \cup {NoLayout} :
          InsertShadowNodeCall(n, parentIndex, nextSiblingIndex, lay)
  \/ \E index, newParentIndex \in Indices, newNextSiblingIndex \in Indices \cup {Null} :
          MoveShadowNodeCall(index, newParentIndex, newNextSiblingIndex)
  \/ \E index \in Indices, newLayout \in Layouts \cup {NoLayout} :
          UpdateShadowNodeCall(index, newLayout)
  \/ \E index \in Indices : RemoveShadowNodeCall(index)

\* the ShadowDom driven through its public methods alone; edits counts the calls
SpecCalls == InitConstructed /\ [][NextCalls]_vars

\* ------------------------------------------------------------ sanity
TypeOK ==
  /\ nextIndex \in 0 .. NumNodes
  /\ \A n \in Nodes : nodeIndex[n] \in Indices \cup {Null}
  /\ \A x \in Indices : ParentIn(kids, x) # Null =>
        x \in Descendants(kids, ShadowDomRoot) \cup Descendants(kids, RemovedNodes)

\* ------------------------------------------------------------ claims
\* The claims about one batch are stated on the state in which the callback is about
\* to run: Result is what applyMutationBatch makes of the queued records there.
Result == ApplyMutationBatch(State, live, mutations)

\* the state applyMutationBatch has reached when the first i queued records are done
StateAfter(i) ==
  ApplyMutations([State EXCEPT !.classifyNodes = TRUE], live, SubSeq(mutations, 1, i), 1)

InPage(n) == n \in InclusiveDescendants(live, Document)

\* n has an index and its mirror node is attached below the mirror root
Tracked(n) ==
  /\ n # Null
  /\ nodeIndex[n] # Null
  /\ nodeIndex[n] \in Descendants(kids, ShadowDomRoot)

\* the live nodes a list of the summary stands for
LiveNodes(r, list) == {r.s.node[list[i]] : i \in 1 .. Len(list)}

Reported(r) ==
  LiveNodes(r, r.summary.newNodes) \cup LiveNodes(r, r.summary.movedNodes)
    \cup LiveNodes(r, r.summary.updatedNodes) \cup LiveNodes(r, r.summary.removedNodes)

Count(list, x) == Cardinality({i \in 1 .. Len(list) : list[i] = x})

OnlyNew(s, index) ==
  s = [newNodes |-> <<index>>, movedNodes |-> <<>>, updatedNodes |-> <<>>, removedNodes |-> <<>>]

\* C1 (structural mirroring): whenever every queued record has been processed,
\* mirrorsRealDom() returns true.
C1_StructuralMirroring == mutations = <<>> => MirrorsRealDom(State, live)

\* the queued batch is one child-list record that adds one node without index, no
\* node of its live subtree has an index, and the record's target is tracked
OneInsertOfUnknownSubtree ==
  /\ Len(mutations) = 1
  /\ mutations[1].type = "childList"
  /\ Len(mutations[1].addedNodes) = 1
  /\ mutations[1].removedNodes = <<>>
  /\ \A n \in InclusiveDescendants(live, mutations[1].addedNodes[1]) : nodeIndex[n] = Null
  /\ Tracked(mutations[1].target)

\* C2 (insert discovery): one record adding an unknown node with N unknown live
\* descendants yields N+1 entries in newNodes, one per node of the subtree, and the
\* parent of every entry below the root is listed before it.
C2_InsertDiscovery ==
  OneInsertOfUnknownSubtree =>
    \A r \in {Result} :
      LET root == mutations[1].addedNodes[1]
          subtree == InclusiveDescendants(live, root)
          new == r.summary.newNodes
      IN /\ r.returned
         /\ Len(new) = Cardinality(subtree)
         /\ LiveNodes(r, new) = subtree
         /\ \A i \in 1 .. Len(new) :
              r.s.node[new[i]] # root =>
                \E j \in 1 .. (i - 1) : r.s.node[new[j]] = ParentIn(live, r.s.node[new[i]])

\* some queued record adds n / removes n
AddedByBatch(n) == \E i \in 1 .. Len(mutations) : n \in Range(mutations[i].addedNodes)

RemovedByBatch(n) == \E i \in 1 .. Len(mutations) : n \in Range(mutations[i].removedNodes)

\* n has no index when the batch starts, the batch has a record that adds it and a
\* record that removes it, and it is outside the page when the batch is processed
InsertedAndRemoved(n) ==
  /\ nodeIndex[n] = Null
  /\ AddedByBatch(n)
  /\ RemovedByBatch(n)
  /\ ~InPage(n)

\* C3 (cancellation law): a node without index that the batch both inserts and
\* removes is in neither newNodes nor removedNodes, no node of its subtree is in any
\* list of the summary, and no two live nodes ever share an index (the index such a
\* node consumed stays below nextIndex and is given to no other node).
C3_Cancellation ==
  /\ (\E n \in Nodes : InsertedAndRemoved(n)) =>
       \A r \in {Result} : \A n \in Nodes :
         InsertedAndRemoved(n) =>
           /\ n \notin LiveNodes(r, r.summary.newNodes)
           /\ n \notin LiveNodes(r, r.summary.removedNodes)
           /\ Descendants(live, n) \cap Reported(r) = {}
  /\ \A a \in Nodes :
       nodeIndex[a] # Null =>
         /\ nodeIndex[a] < nextIndex
         /\ \A b \in Nodes \ {a} : nodeIndex[b] # nodeIndex[a]

\* the queued batch is the move of one tracked node: the record that removes it
\* from its old parent followed by the record that adds it under a tracked parent
\* that is not tagged new
OneMoveOfKnownNode ==
  /\ Len(mutations) = 2
  /\ mutations[1].type = "childList" /\ mutations[2].type = "childList"
  /\ mutations[1].addedNodes = <<>> /\ Len(mutations[1].removedNodes) = 1
  /\ mutations[2].removedNodes = <<>> /\ Len(mutations[2].addedNodes) = 1
  /\ mutations[1].removedNodes[1] = mutations[2].addedNodes[1]
  /\ Tracked(mutations[2].addedNodes[1])
  /\ Tracked(mutations[2].target)
  /\ ~HasClass(State, nodeIndex[mutations[2].target], NewNodeClassName)

\* C4 (move stability): the move of a tracked node under a tracked parent keeps the
\* node's index, lists it once in movedNodes and in no other list, and leaves its
\* mirror node under the target's mirror node right before the anchor's mirror node
\* (last when the record has no next sibling).
C4_MoveStability ==
  OneMoveOfKnownNode =>
    \A r \in {Result} :
      LET moved == mutations[2].addedNodes[1]
          index == nodeIndex[moved]
          anchor == mutations[2].nextSibling
      IN /\ r.returned
         /\ r.s.nodeIndex[moved] = index
         /\ Count(r.summary.movedNodes, index) = 1
         /\ Count(r.summary.newNodes, index) = 0
         /\ Count(r.summary.removedNodes, index) = 0
         /\ ParentIn(r.s.kids, index) = nodeIndex[mutations[2].target]
         /\ NextSiblingIn(r.s.kids, index) = GetNodeIndex(State, anchor)

\* the first queued record adds parent, a node without index, child is a live child
\* of parent without index, and every later record of the batch adds child under
\* parent or removes child from parent
StaleRecordsFollow(parent, child) ==
  /\ Len(mutations) >= 2
  /\ mutations[1].type = "childList"
  /\ mutations[1].addedNodes = <<parent>> /\ mutations[1].removedNodes = <<>>
  /\ nodeIndex[parent] = Null /\ nodeIndex[child] = Null
  /\ child \in Range(live[parent])
  /\ \A j \in 2 .. Len(mutations) :
       /\ mutations[j].type = "childList"
       /\ mutations[j].target = parent
       /\ \/ mutations[j].addedNodes = <<child>> /\ mutations[j].removedNodes = <<>>
          \/ mutations[j].addedNodes = <<>> /\ mutations[j].removedNodes = <<child>>

\* in s, the state after the first record, child has its mirror node under the
\* mirror node of parent: the discovery of the insert of parent has created it
Discovered(s, parent, child) ==
  /\ ~s.threw
  /\ GetShadowNode(s, s.nodeIndex[child]) # Null
  /\ ParentIn(s.kids, s.nodeIndex[child]) = s.nodeIndex[parent]

\* C5 (final-subtree quashing): after the insert of an unknown parent has discovered
\* its live child, the later records of the batch that add the child under the
\* parent or remove it from the parent change nothing; the child is listed once in
\* newNodes and in no other list and stays where discovery put it.
C5_FinalSubtreeQuashing ==
  \A parent, child \in Nodes :
    StaleRecordsFollow(parent, child) =>
      \A s1 \in {StateAfter(1)} :
        Discovered(s1, parent, child) =>
          \A r \in {Result} :
            LET index == s1.nodeIndex[child] IN
            /\ \A j \in 2 .. Len(mutations) : StateAfter(j) = s1
            /\ r.returned
            /\ Count(r.summary.newNodes, index) = 1
            /\ Count(r.summary.movedNodes, index) = 0
            /\ Count(r.summary.updatedNodes, index) = 0
            /\ Count(r.summary.removedNodes, index) = 0
            /\ ParentIn(r.s.kids, index) = ParentIn(s1.kids, index)
            /\ NextSiblingIn(r.s.kids, index) = NextSiblingIn(s1.kids, index)

\* C5 happens: a stale remove record and a stale add record follow the discovery
C5_Witness ==
  \E parent, child \in Nodes :
    /\ StaleRecordsFollow(parent, child)
    /\ Discovered(StateAfter(1), parent, child)
    /\ \E j \in 2 .. Len(mutations) : mutations[j].removedNodes = <<child>>
    /\ \E j \in 2 .. Len(mutations) : mutations[j].addedNodes = <<child>>
    /\ Count(Result.summary.newNodes, StateAfter(1).nodeIndex[child]) = 1

\* a node that was created outside the page and has no children
FreshLeaf(n) == n \in Nodes /\ n >= NumKnown /\ live[n] = <<>>

\* the first callback has come from one edit and has just put a below the document
FirstBatchInserted(a) ==
  /\ batches = 1 /\ edits = 1 /\ mutations = <<>>
  /\ FreshLeaf(a)
  /\ a \in Range(live[Document])

\* the first callback came from the one edit that put a below the document, and the
\* one edit since then has appended b to a
SecondBatchInserts(a, b) ==
  /\ batches = 1 /\ edits = 2
  /\ a \in Nodes /\ a >= NumKnown /\ a \in Range(live[Document])
  /\ live[a] = <<b>> /\ FreshLeaf(b) /\ nodeIndex[b] = Null
  /\ mutations = <<ChildListRecord(a, <<b>>, <<>>, Null, Null)>>

\* C6 (batch isolation): of the two batches [insert A under the document] and
\* [insert B under A], the first reports A as new and nothing else, the second
\* reports B as new and nothing else, and B's mirror node lies under the mirror node
\* that carries A's index.
C6_BatchIsolation ==
  /\ \A a \in Nodes :
       FirstBatchInserted(a) => returned /\ OnlyNew(summary, nodeIndex[a])
  /\ \A a, b \in Nodes :
       SecondBatchInserts(a, b) =>
         \A r \in {Result} :
           /\ returned /\ OnlyNew(summary, nodeIndex[a])
           /\ r.returned
           /\ r.s.nodeIndex[b] # Null
           /\ OnlyNew(r.summary, r.s.nodeIndex[b])
           /\ r.s.nodeIndex[a] = nodeIndex[a]
           /\ ParentIn(r.s.kids, r.s.nodeIndex[b]) = nodeIndex[a]

\* C6 happens: the second batch inserts B under the A of the first
C6_Witness ==
  \E a, b \in Nodes :
    /\ SecondBatchInserts(a, b)
    /\ Result.summary.newNodes = <<Result.s.nodeIndex[b]>>

\* C7 (index uniqueness and monotonicity): no two live nodes carry the same index,
\* every index handed out is below nextIndex, and a batch gives every node that
\* receives an index one that is at least the nextIndex of before the batch, hence
\* greater than every index handed out before, retired or not; nextIndex never
\* goes down.
C7_IndexUniqueMonotonic ==
  /\ \A a \in Nodes :
       nodeIndex[a] # Null =>
         /\ nodeIndex[a] >= 0 /\ nodeIndex[a] < nextIndex
         /\ \A b \in Nodes \ {a} : nodeIndex[b] # nodeIndex[a]
  /\ \A r \in {Result} :
       /\ r.s.nextIndex >= nextIndex
       /\ \A a \in Nodes :
            (nodeIndex[a] = Null /\ r.s.nodeIndex[a] # Null) =>
              /\ r.s.nodeIndex[a] >= nextIndex
              /\ r.s.nodeIndex[a] < r.s.nextIndex
              /\ \A b \in Nodes \ {a} : r.s.nodeIndex[b] # r.s.nodeIndex[a]

\* C7 happens: a batch inserts a node after an earlier batch has removed and dropped
\* the mirror node of another
C7_Witness ==
  \E a, b \in Nodes :
    /\ batches >= 1
    /\ nodeIndex[a] # Null /\ GetShadowNode(State, nodeIndex[a]) = Null
    /\ nodeIndex[b] = Null
    /\ Result.s.nodeIndex[b] # Null
    /\ Result.s.nodeIndex[b] > nodeIndex[a]

\* the queued batch inserts the unknown node t under a tracked parent, moves the
\* tracked node k into t and removes t again
RemovalThroughTransientParent(t, k) ==
  /\ Len(mutations) = 4
  /\ \A i \in 1 .. 4 : mutations[i].type = "childList"
  /\ mutations[1].addedNodes = <<t>> /\ mutations[1].removedNodes = <<>>
  /\ nodeIndex[t] = Null /\ Tracked(mutations[1].target)
  /\ mutations[2].addedNodes = <<>> /\ mutations[2].removedNodes = <<k>>
  /\ Tracked(k)
  /\ mutations[3].target = t
  /\ mutations[3].addedNodes = <<k>> /\ mutations[3].removedNodes = <<>>
  /\ mutations[4].target = mutations[1].target
  /\ mutations[4].addedNodes = <<>> /\ mutations[4].removedNodes = <<t>>

\* C8 (removal through a transient parent): when a batch inserts an unknown node T
\* under a known parent, moves a known node K into T and removes T, the summary's
\* removedNodes is K alone and the other lists are empty.
C8_RemovalThroughTransientParent ==
  \A t, k \in Nodes :
    RemovalThroughTransientParent(t, k) =>
      \A r \in {Result} :
        /\ r.returned
        /\ r.summary =
             [newNodes |-> <<>>, movedNodes |-> <<>>, updatedNodes |-> <<>>,
              removedNodes |-> <<nodeIndex[k]>>]

\* C9 (no index gaps): the indices of the nodes a batch reports as new are exactly
\* the indices the batch has handed out, so that the new nodes of successive batches
\* carry a gap-free increasing range of indices.
C9_NoIndexGaps ==
  \A r \in {Result} :
    r.returned => Range(r.summary.newNodes) = nextIndex .. (r.s.nextIndex - 1)

\* C10 (index cleared on removal): once a batch is processed, no live node outside
\* the page carries an index.
C10_IndexClearedOnRemoval ==
  \A r \in {Result} :
    r.returned => \A n \in Nodes : ~InPage(n) => r.s.nodeIndex[n] = Null

\* record i of the queued batch is a child-list record whose target carries an index
\* and has no mirror node, neither below the mirror root nor in the holding area,
\* when the record is reached
NamesMissingParent(i) ==
  /\ mutations[i].type = "childList"
  /\ \A s \in {StateAfter(i - 1)} :
       /\ ~s.threw
       /\ GetNodeIndex(s, mutations[i].target) # Null
       /\ GetShadowNode(s, GetNodeIndex(s, mutations[i].target)) = Null

\* C11 (fatal parent violation): a batch with a child-list record whose parent has
\* no mirror node is aborted: applyMutationBatch returns no summary and the records
\* after that one are not applied.
C11_FatalParentAborts ==
  \A i \in 1 .. Len(mutations) :
    NamesMissingParent(i) =>
      \A r \in {Result} :
        /\ ~r.returned
        /\ r.s = [StateAfter(i - 1) EXCEPT !.threw = FALSE]

\* record i of the queued batch is an attribute or text record whose target has no
\* index, or a child-list record that only removes nodes without index, when the
\* record is reached
NoOpRecord(i) ==
  /\ \/ mutations[i].type = "attributes" /\ nodeIndex[mutations[i].target] = Null
     \/ /\ mutations[i].type = "childList"
        /\ mutations[i].addedNodes = <<>>
        /\ mutations[i].removedNodes # <<>>
        /\ \A n \in Range(mutations[i].removedNodes) : nodeIndex[n] = Null
  /\ \A s \in {StateAfter(i - 1)} :
       /\ ~s.threw
       /\ mutations[i].type = "attributes" => GetNodeIndex(s, mutations[i].target) = Null
       /\ \A n \in Range(mutations[i].removedNodes) : GetNodeIndex(s, n) = Null

\* the queued batch without its record i
BatchWithout(i) ==
  SubSeq(mutations, 1, i - 1) \o SubSeq(mutations, i + 1, Len(mutations))

\* C12 (expected no-ops): an attribute record on a node without index and the removal
\* of nodes without index change neither the mirror, the holding area, nextIndex, the
\* indices of the live nodes nor the tags, and the batch's outcome is what it is
\* without the record.
C12_ExpectedNoOps ==
  \A i \in 1 .. Len(mutations) :
    NoOpRecord(i) =>
      /\ StateAfter(i) = StateAfter(i - 1)
      /\ Result = ApplyMutationBatch(State, live, BatchWithout(i))

\* C12 happens: a batch that returns holds an attribute record and a removal of that
\* kind
C12_Witness ==
  /\ \E i \in 1 .. Len(mutations) : NoOpRecord(i) /\ mutations[i].type = "attributes"
  /\ \E i \in 1 .. Len(mutations) : NoOpRecord(i) /\ mutations[i].type = "childList"
  /\ Result.returned


\* the indices read from the page in document order, Null for a node without index
LiveIndexSequence ==
  LET order == Flatten(live, <<Document>>) IN
  [i \in 1 .. Len(order) |-> nodeIndex[order[i]]]

\* the indices read from the mirror in document order: for every mirror node below
\* the mirror of the document, the index of the live node it stands for
MirrorIndexSequence ==
  LET order == Flatten(kids, <<shadowDocument>>) IN
  [i \in 1 .. Len(order) |-> IF node[order[i]] = Null THEN Null ELSE nodeIndex[node[order[i]]]]

\* C13 (mirrorsRealDom): mirrorsRealDom() is true exactly when the two index
\* sequences have the same length and the same entry at every position.  It is a
\* function of the page and the mirror and assigns to neither.
C13_MirrorsRealDom ==
  MirrorsRealDom(State, live) <=>
    /\ Len(LiveIndexSequence) = Len(MirrorIndexSequence)
    /\ \A i \in 1 .. Len(LiveIndexSequence) : LiveIndexSequence[i] = MirrorIndexSequence[i]

\* C13 happens: after a batch the sequences are equally long and differ, and
\* mirrorsRealDom() is false
C13_Witness ==
  /\ batches >= 1 /\ mutations = <<>>
  /\ Len(LiveIndexSequence) = Len(MirrorIndexSequence)
  /\ LiveIndexSequence # MirrorIndexSequence
  /\ ~MirrorsRealDom(State, live)

\* C14 (transient state cleared): when applyMutationBatch returns, no mirror node
\* below the mirror root carries a tag, the holding area is empty and tagging is off.
C14_TransientStateCleared ==
  \A r \in {Result} :
    r.returned =>
      /\ \A x \in Descendants(r.s.kids, ShadowDomRoot) : r.s.classes[x] = {}
      /\ r.s.kids[RemovedNodes] = <<>>
      /\ ~r.s.classifyNodes

\* the queued batch is one child-list record that adds two or more nodes without
\* index under a tracked parent
OneRecordAddsSeveral ==
  /\ Len(mutations) = 1
  /\ mutations[1].type = "childList"
  /\ Len(mutations[1].addedNodes) >= 2
  /\ mutations[1].removedNodes = <<>>
  /\ \A n \in Range(mutations[1].addedNodes) : nodeIndex[n] = Null
  /\ Tracked(mutations[1].target)

\* C15 (several nodes in one record): a record that adds the unknown nodes n1..nk
\* before anchor S under a known parent leaves their mirror nodes under the parent's
\* mirror node, each right before the next and nk right before S's mirror node (last
\* when there is no anchor), and newNodes lists n1, ..., nk once each in that order.
C15_SeveralNodesInOneRecord ==
  OneRecordAddsSeveral =>
    \A r \in {Result} :
      LET added == mutations[1].addedNodes
          k == Len(added)
          index == [i \in 1 .. k |-> r.s.nodeIndex[added[i]]]
          new == r.summary.newNodes
      IN /\ r.returned
         /\ \A i \in 1 .. k :
              /\ index[i] # Null
              /\ ParentIn(r.s.kids, index[i]) = nodeIndex[mutations[1].target]
              /\ NextSiblingIn(r.s.kids, index[i]) =
                   IF i < k THEN index[i + 1] ELSE GetNodeIndex(State, mutations[1].nextSibling)
              /\ Count(new, index[i]) = 1
         /\ \A i, j \in 1 .. k :
              i < j => IndexOf(new, index[i]) < IndexOf(new, index[j])

\* records i and i + 1 of the queued batch move the tracked node x into sNode: the
\* record that removes it from its old parent and the record that appends it to sNode
MoveInto(i, x, sNode) ==
  /\ mutations[i].type = "childList" /\ mutations[i + 1].type = "childList"
  /\ mutations[i].addedNodes = <<>> /\ mutations[i].removedNodes = <<x>>
  /\ mutations[i + 1].target = sNode
  /\ mutations[i + 1].addedNodes = <<x>> /\ mutations[i + 1].removedNodes = <<>>
  /\ Tracked(x)

\* the queued batch inserts the unknown node sNode under a tracked parent and then
\* moves the tracked nodes d and b into it, one after the other, so that the page
\* has them as the children d, b of sNode
TwoKnownNodesMovedUnderNew(sNode, d, b) ==
  /\ d # b
  /\ Len(mutations) = 5
  /\ mutations[1].type = "childList"
  /\ mutations[1].addedNodes = <<sNode>> /\ mutations[1].removedNodes = <<>>
  /\ nodeIndex[sNode] = Null
  /\ Tracked(mutations[1].target)
  /\ \/ MoveInto(2, d, sNode) /\ MoveInto(4, b, sNode)
     \/ MoveInto(2, b, sNode) /\ MoveInto(4, d, sNode)
  /\ live[sNode] = <<d, b>>

\* C16 (two known nodes moved under a new node): the summary has newNodes = [S],
\* movedNodes = [D, B] and no removed node; in the mirror D and B are the children of
\* S, D right before B and B last.
C16_TwoMovesUnderNewNode ==
  \A sNode, d, b \in Nodes :
    TwoKnownNodesMovedUnderNew(sNode, d, b) =>
      \A r \in {Result} :
        /\ r.returned
        /\ r.s.nodeIndex[sNode] # Null
        /\ r.summary.newNodes = <<r.s.nodeIndex[sNode]>>
        /\ r.summary.movedNodes = <<nodeIndex[d], nodeIndex[b]>>
        /\ r.summary.removedNodes = <<>>
        /\ r.s.kids[r.s.nodeIndex[sNode]] = <<nodeIndex[d], nodeIndex[b]>>
        /\ NextSiblingIn(r.s.kids, nodeIndex[d]) = nodeIndex[b]
        /\ NextSiblingIn(r.s.kids, nodeIndex[b]) = Null

\* C16 happens: such a batch is queued and reports the two moves
C16_Witness ==
  \E sNode, d, b \in Nodes :
    /\ TwoKnownNodesMovedUnderNew(sNode, d, b)
    /\ Len(Result.summary.movedNodes) = 2

\* C17 (each change reported once): in the summary of a batch every mirror node is in
\* at most one of newNodes, movedNodes and updatedNodes, and at most once in it.
C17_ReportedOnce ==
  \A r \in {Result} :
    r.returned =>
      \A x \in Indices :
        Count(r.summary.newNodes, x) + Count(r.summary.movedNodes, x)
          + Count(r.summary.updatedNodes, x) <= 1

\* C18 (order of newNodes): when two nodes listed in newNodes are children of the same
\* mirror node that is listed too, the left one and every listed node of its subtree
\* come before the right one.
C18_NewNodesDepthFirst ==
  \A r \in {Result} :
    r.returned =>
      LET new == r.summary.newNodes IN
      \A a, b \in Range(new) :
        LET p == ParentIn(r.s.kids, a) IN
        ( /\ a # b
          /\ p = ParentIn(r.s.kids, b)
          /\ p \in Range(new)
          /\ IndexOf(r.s.kids[p], a) < IndexOf(r.s.kids[p], b) ) =>
          \A x \in ({a} \cup Descendants(r.s.kids, a)) \cap Range(new) :
            IndexOf(new, x) < IndexOf(new, b)

\* the records of the queued batch after which mirror node x carries className
TaggedAfter(x, className) ==
  {i \in 1 .. Len(mutations) : className \in StateAfter(i).classes[x]}

\* the first record of the queued batch that leaves className on mirror node x
TagTime(x, className) ==
  CHOOSE i \in TaggedAfter(x, className) : \A j \in TaggedAfter(x, className) : i <= j

\* list holds its nodes in the order in which the records of the batch tagged them
InTaggingOrder(list, className) ==
  \A i, j \in 1 .. Len(list) :
    ( /\ i < j
      /\ TaggedAfter(list[i], className) # {}
      /\ TaggedAfter(list[j], className) # {} ) =>
      TagTime(list[i], className) <= TagTime(list[j], className)

\* the entries of newNodes whose mirror parent is not in newNodes: the roots of the
\* new subtrees, in the order of the list
NewRoots(r) ==
  SelectSeq(r.summary.newNodes,
            LAMBDA x : ParentIn(r.s.kids, x) \notin Range(r.summary.newNodes))

\* list holds its nodes in the document order of the mirror
InDocumentOrder(r, list) ==
  LET order == Flatten(r.s.kids, r.s.kids[ShadowDomRoot]) IN
  \A i, j \in 1 .. Len(list) :
    i < j => /\ list[i] \in Range(order) /\ list[j] \in Range(order)
             /\ IndexOf(order, list[i]) < IndexOf(order, list[j])

\* C19 as stated (tagging order): the roots of the new subtrees are listed in the
\* order in which their top-new tags were set, movedNodes and updatedNodes in the
\* order in which the moved and updated tags were set.
C19_TaggingOrder ==
  mutations # <<>> =>
    \A r \in {Result} :
      r.returned =>
        /\ InTaggingOrder(NewRoots(r), TopNewNodeClassName)
        /\ InTaggingOrder(r.summary.movedNodes, MovedNodeClassName)
        /\ InTaggingOrder(r.summary.updatedNodes, UpdatedNodeClassName)

\* C19 amended (document order): the roots of the new subtrees, the moved nodes and
\* the updated nodes are each listed in the document order of the mirror.
C19_DocumentOrder ==
  \A r \in {Result} :
    r.returned =>
      /\ InDocumentOrder(r, NewRoots(r))
      /\ InDocumentOrder(r, r.summary.movedNodes)
      /\ InDocumentOrder(r, r.summary.updatedNodes)

\* C19 happens: a batch lists two moved nodes, and two new roots, against the order
\* in which they were tagged
C19_Witness ==
  /\ mutations # <<>>
  /\ Result.returned
  /\ Len(Result.summary.movedNodes) >= 2
  /\ ~InTaggingOrder(Result.summary.movedNodes, MovedNodeClassName)
  /\ Len(NewRoots(Result)) >= 1

\* x is in no list of the summary
Unreported(summ, x) ==
  Count(summ.newNodes, x) + Count(summ.movedNodes, x)
    + Count(summ.updatedNodes, x) + Count(summ.removedNodes, x) = 0

AddsUnderMirroredTarget(i) ==
  /\ mutations[i].type = "childList"
  /\ Len(mutations[i].addedNodes) = 1
  /\ \A s \in {StateAfter(i - 1)} :
       ~s.threw /\ GetShadowNode(s, GetNodeIndex(s, mutations[i].target)) # Null

\* the state applyMutationBatch reaches from s by the added-node entry of record i
AfterAddedEntry(s, i) ==
  ApplyInsert(s, live, mutations[i].addedNodes[1], mutations[i].target,
              mutations[i].previousSibling, mutations[i].nextSibling, FALSE)

\* C21 (quash rule for added nodes): an added-node entry, for a node with or without
\* index, changes nothing when the mirror node of the record's target is tagged final;
\* when that mirror node is not final the entry is applied: the added node then has
\* its mirror node under the mirror node of the target.
C21_QuashRuleForAddedNodes ==
  \A i \in 1 .. Len(mutations) :
    AddsUnderMirroredTarget(i) =>
      \A s \in {StateAfter(i - 1)} :
        \A s1 \in {AfterAddedEntry(s, i)} :
          LET t == GetShadowNode(s, GetNodeIndex(s, mutations[i].target))
              n == mutations[i].addedNodes[1]
          IN IF HasClass(s, t, FinalClassName)
             THEN s1 = s
             ELSE /\ ~s1.threw
                  /\ s1.nodeIndex[n] # Null
                  /\ ParentIn(s1.kids, s1.nodeIndex[n]) = t

\* the mirror node a call of insertShadowNode for n creates its node under
ParentOfInsert(n, parentIndex) ==
  IF n = Document THEN ShadowDomRoot ELSE GetShadowNode(State, parentIndex)

\* n can be handed to insertShadowNode: it has no mirror node
Unmirrored(n) == nodeIndex[n] # Null => ParentIn(kids, nodeIndex[n]) = Null

Detaches(s, i, n) ==
  /\ ~s.threw
  /\ mutations[i].type = "childList"
  /\ n \in Range(mutations[i].removedNodes)
  /\ GetNodeIndex(s, n) # Null
  /\ GetShadowNode(s, GetNodeIndex(s, n)) # Null
  /\ ShouldProcessChildListMutation(s, n, mutations[i].target)

RECURSIVE StatesFrom(_, _)
\* the states applyMutationBatch goes through from s on: s, then the state after
\* record i, after record i + 1, ..., after the last record
StatesFrom(s, i) ==
  IF i > Len(mutations) THEN <<s>>
  ELSE <<s>> \o StatesFrom(ApplyMutation(s, live, mutations[i]), i + 1)

\* BatchStates[j + 1] is the state after the first j queued records
BatchStates == StatesFrom([State EXCEPT !.classifyNodes = TRUE], 1)

UpdatesMirrored(s, i) ==
  /\ mutations[i].type = "attributes"
  /\ ~s.threw
  /\ GetNodeIndex(s, mutations[i].target) # Null
  /\ GetShadowNode(s, GetNodeIndex(s, mutations[i].target)) # Null

\* no child-list record of the queued batch touches live node n: none adds or removes
\* n or a node that has n in its subtree, in the page or in the mirror
Untouched(st, n) ==
  \A j \in 1 .. Len(mutations) :
    mutations[j].type = "childList" =>
      \A m \in Range(mutations[j].addedNodes) \cup Range(mutations[j].removedNodes) :
        /\ n \notin InclusiveDescendants(live, m)
        /\ GetNodeIndex(st[j], m) # Null =>
             GetNodeIndex(st[j], n) \notin InclusiveDescendants(st[j].kids, GetNodeIndex(st[j], m))

\* C24 (attribute and text records change no structure): an attribute or text record
\* for a node with a mirror node adds the updated tag to that mirror node and changes
\* nothing else: the parent and the child order of every mirror node, the index of
\* every node, nextIndex and the holding area stay as they are.  When no child-list
\* record of the batch touches the node, the batch returns a summary that has the node
\* once in updatedNodes and in no other list.
C24_UpdateChangesNoStructure ==
  (\E i \in 1 .. Len(mutations) : mutations[i].type = "attributes") =>
    \A st \in {BatchStates} :
      \A i \in 1 .. Len(mutations) :
        UpdatesMirrored(st[i], i) =>
          LET x == GetNodeIndex(st[i], mutations[i].target) IN
          /\ st[i + 1] = [st[i] EXCEPT !.classes[x] = @ \cup {UpdatedNodeClassName}]
          /\ Untouched(st, mutations[i].target) =>
               \A r \in {Result} :
                 /\ r.returned
                 /\ Count(r.summary.updatedNodes, x) = 1
                 /\ Count(r.summary.newNodes, x) = 0
                 /\ Count(r.summary.movedNodes, x) = 0
                 /\ Count(r.summary.removedNodes, x) = 0

\* record j of the queued batch adds the node n, alone, under a target whose mirror
\* node is below the mirror root and not tagged final in s, the state in which the
\* record is reached
AddsUnderKnownParent(s, j, n) ==
  /\ ~s.threw
  /\ mutations[j].type = "childList"
  /\ mutations[j].addedNodes = <<n>>
  /\ GetNodeIndex(s, mutations[j].target) # Null
  /\ GetNodeIndex(s, mutations[j].target) \in Descendants(s.kids, ShadowDomRoot)
  /\ ~HasClass(s, GetNodeIndex(s, mutations[j].target), FinalClassName)

\* records i and j are the only child-list records of the queued batch that touch n:
\* no other one adds or removes n or a node that has n in its subtree
OnlyTouchedBy(st, i, j, n) ==
  \A k \in (1 .. Len(mutations)) \ {i, j} :
    mutations[k].type = "childList" =>
      \A m \in Range(mutations[k].addedNodes) \cup Range(mutations[k].removedNodes) :
        /\ n \notin InclusiveDescendants(live, m)
        /\ GetNodeIndex(st[k], m) # Null =>
             GetNodeIndex(st[k], n) \notin InclusiveDescendants(st[k].kids, GetNodeIndex(st[k], m))

\* the tracked node n is detached by record i and added again by the later record j
\* under a known parent that is not final, and no other record touches n
DetachedThenReattached(st, i, j, n) ==
  /\ i < j
  /\ Tracked(n)
  /\ Detaches(st[i], i, n)
  /\ AddsUnderKnownParent(st[j], j, n)
  /\ OnlyTouchedBy(st, i, j, n)

\* C25 (detach then reattach within a batch): a known node that one record removes and
\* a later record adds under a known parent that is not final keeps its index and its
\* mirror node with the mirror subtree below it, has its mirror node under the mirror
\* node of the new parent right before the mirror node of the record's next sibling
\* (last without one), is still under that parent when the batch returns, and is
\* reported once in movedNodes and not in removedNodes or newNodes.
C25_DetachThenReattach ==
  (\E i \in 1 .. Len(mutations) : mutations[i].removedNodes # <<>>) =>
    \A st \in {BatchStates} :
      \A i, j \in 1 .. Len(mutations) : \A n \in Range(mutations[i].removedNodes) :
        DetachedThenReattached(st, i, j, n) =>
          LET x == nodeIndex[n]
              t == GetNodeIndex(st[j], mutations[j].target)
          IN /\ ~st[j + 1].threw
             /\ st[j + 1].nodeIndex[n] = x
             /\ \A y \in InclusiveDescendants(st[i].kids, x) : st[i + 1].kids[y] = st[i].kids[y]
             /\ \A y \in InclusiveDescendants(st[j].kids, x) : st[j + 1].kids[y] = st[j].kids[y]
             /\ ParentIn(st[j + 1].kids, x) = t
             /\ NextSiblingIn(st[j + 1].kids, x) = GetNodeIndex(st[j], mutations[j].nextSibling)
             /\ \A r \in {Result} :
                  /\ r.returned
                  /\ r.s.nodeIndex[n] = x
                  /\ ParentIn(r.s.kids, x) = t
                  /\ Count(r.summary.movedNodes, x) = 1
                  /\ Count(r.summary.removedNodes, x) = 0
                  /\ Count(r.summary.newNodes, x) = 0

\* the added-node entry of record j of the queued batch is applied in s, the state in
\* which the record is reached, and places a mirror node before an anchor: the entry is
\* not quashed, the destination parent and the record's next sibling have mirror nodes,
\* and so has the added node when it carries an index
PlacesBeforeAnchor(s, j) ==
  /\ ~s.threw
  /\ mutations[j].type = "childList"
  /\ Len(mutations[j].addedNodes) = 1
  /\ ShouldProcessChildListMutation(s, mutations[j].addedNodes[1], mutations[j].target)
  /\ GetShadowNode(s, GetNodeIndex(s, mutations[j].target)) # Null
  /\ GetShadowNode(s, GetNodeIndex(s, mutations[j].nextSibling)) # Null
  /\ GetNodeIndex(s, mutations[j].addedNodes[1]) # Null =>
       GetShadowNode(s, GetNodeIndex(s, mutations[j].addedNodes[1])) # Null

\* C26 (anchor validity): whenever a record of a batch makes applyMutationBatch insert
\* or relocate a mirror node before the mirror node of the record's next sibling, that
\* anchor is at that moment a child of the destination parent's mirror node, and the
\* DOM call that places the node does not throw.
C26_AnchorValidity ==
  mutations # <<>> =>
    \A st \in {BatchStates} :
      \A j \in 1 .. Len(mutations) :
        PlacesBeforeAnchor(st[j], j) =>
          /\ ParentIn(st[j].kids, GetNodeIndex(st[j], mutations[j].nextSibling)) =
               GetNodeIndex(st[j], mutations[j].target)
          /\ ~st[j + 1].threw

\* an earlier batch has removed n and dropped its mirror node with the holding area,
\* and the queued batch is the one record that adds n again under a tracked parent
ReinsertedAfterRemoval(n) ==
  /\ batches >= 1
  /\ nodeIndex[n] # Null
  /\ ParentIn(kids, nodeIndex[n]) = Null
  /\ Len(mutations) = 1
  /\ mutations[1].type = "childList"
  /\ mutations[1].addedNodes = <<n>> /\ mutations[1].removedNodes = <<>>
  /\ Tracked(mutations[1].target)
  /\ InPage(n)

\* C27 (reinsertion after removal): a node that an earlier batch removed and that a
\* later batch adds again under a tracked parent has a mirror node under the parent's
\* mirror node when the later batch returns, right before the mirror node of the
\* record's next sibling when that one is tracked, and is in newNodes or movedNodes of
\* that batch's summary.
C27_ReinsertionAfterRemoval ==
  \A n \in Nodes :
    ReinsertedAfterRemoval(n) =>
      \A r \in {Result} :
        LET x == r.s.nodeIndex[n] IN
        /\ r.returned
        /\ GetShadowNode(r.s, x) # Null
        /\ ParentIn(r.s.kids, x) = nodeIndex[mutations[1].target]
        /\ Tracked(mutations[1].nextSibling) =>
             NextSiblingIn(r.s.kids, x) = nodeIndex[mutations[1].nextSibling]
        /\ Count(r.summary.newNodes, x) + Count(r.summary.movedNodes, x) = 1

\* the mirror nodes of the mirror document, in document order
MirrorDocument == Flatten(kids, kids[ShadowDomRoot])

\* C28 (registry consistency): between two operations every mirror node below the
\* mirror root has the index of its live node as its id, no id occurs twice in the
\* mirror document, and every live node with an index has a mirror node that
\* getShadowNode returns for that index.
C28_RegistryConsistency ==
  /\ \A x \in Range(MirrorDocument) :
       node[x] # Null /\ nodeIndex[node[x]] = x
  /\ \A i, j \in 1 .. Len(MirrorDocument) :
       i # j => MirrorDocument[i] # MirrorDocument[j]
  /\ \A n \in Nodes :
       nodeIndex[n] # Null =>
         /\ GetShadowNode(State, nodeIndex[n]) = nodeIndex[n]
         /\ node[nodeIndex[n]] = n

\* the mirror nodes of the lists of new, moved and updated nodes of a summary
ListedAsPresent(summ) ==
  Range(summ.newNodes) \cup Range(summ.movedNodes) \cup Range(summ.updatedNodes)

\* C29 (summary nodes are attached): when applyMutationBatch returns, every mirror node
\* in newNodes, movedNodes or updatedNodes is below the mirror root and no mirror node
\* in removedNodes is; a mirror node that carries the moved or the updated tag and is
\* in the holding area when the records are done is in none of newNodes, movedNodes
\* and updatedNodes.
C29_SummaryNodesAttached ==
  mutations # <<>> =>
    \A r \in {Result} :
      r.returned =>
        /\ \A x \in ListedAsPresent(r.summary) : x \in Descendants(r.s.kids, ShadowDomRoot)
        /\ \A x \in Range(r.summary.removedNodes) : x \notin Descendants(r.s.kids, ShadowDomRoot)
        /\ \A s \in {StateAfter(Len(mutations))} :
             \A y \in Descendants(s.kids, RemovedNodes) :
               (s.classes[y] \cap {MovedNodeClassName, UpdatedNodeClassName} # {}) =>
                 y \notin ListedAsPresent(r.summary)

\* C29 happens: a batch returns a summary with a new or moved node and a removed node,
\* and leaves a mirror node tagged moved and one tagged updated in the holding area
C29_Witness ==
  /\ mutations # <<>>
  /\ Result.returned
  /\ Len(Result.summary.newNodes) + Len(Result.summary.movedNodes) >= 1
  /\ Len(Result.summary.removedNodes) >= 1
  /\ \E y \in Descendants(StateAfter(Len(mutations)).kids, RemovedNodes) :
       MovedNodeClassName \in StateAfter(Len(mutations)).classes[y]
  /\ \E y \in Descendants(StateAfter(Len(mutations)).kids, RemovedNodes) :
       UpdatedNodeClassName \in StateAfter(Len(mutations)).classes[y]

\* C30 (a failed insert changes nothing): insertShadowNode for a node other than the
\* document, without index, with a parent index that has no mirror node leaves the
\* ShadowDom and the live node as they were: nextIndex is not advanced, the node has
\* no index afterwards and the mirror tree is untouched.
C30_FailedInsertChangesNothing ==
  \A n \in Nodes \ {Document}, parentIndex, nextSiblingIndex \in Indices \cup {Null},
     lay \in Layouts \cup {NoLayout} :
    (nodeIndex[n] = Null /\ GetShadowNode(State, parentIndex) = Null) =>
      \A s1 \in {InsertShadowNode(State, n, parentIndex, nextSiblingIndex, lay)} :
        /\ s1.nextIndex = nextIndex
        /\ s1.nodeIndex[n] = Null
        /\ s1.kids = kids
        /\ s1 = State

\* the mirror nodes the summary of an empty batch lists when it starts from s: the
\* nodes that carry a tag the summary reads before any record is processed
ListedWithoutRecords(s) ==
  LET r == ApplyMutationBatch(s, live, <<>>) IN
  ListedAsPresent(r.summary) \cup Range(r.summary.removedNodes)

\* the call that made s1 of the ShadowDom has set no tag and adds no node to the
\* summary of the next batch
SetsNoTag(s1) ==
  ~s1.threw =>
    /\ s1.classes = classes
    /\ ListedWithoutRecords(s1) \subseteq ListedWithoutRecords(State)

\* C31 (no tagging outside a batch): between two batches a call of insertShadowNode,
\* moveShadowNode or updateShadowNode sets no tag on any mirror node, so the summary of
\* the next batch lists no node for it.
C31_NoTaggingOutsideBatch ==
  /\ \A n \in Nodes, parentIndex, nextSiblingIndex \in Indices \cup {Null} :
       Unmirrored(n) =>
         SetsNoTag(InsertShadowNode(State, n, parentIndex, nextSiblingIndex, NoLayout))
  /\ \A index, newParentIndex \in Indices, newNextSiblingIndex \in Indices \cup {Null} :
       SetsNoTag(MoveShadowNode(State, index, newParentIndex, newNextSiblingIndex))
  /\ \A index \in Indices, newLayout \in Layouts \cup {NoLayout} :
       SetsNoTag(UpdateShadowNode(State, index, newLayout))

\* the ShadowDom when the loop over the records of the queued batch has ended
AfterRecords == ApplyMutations([State EXCEPT !.classifyNodes = TRUE], live, mutations, 1)

\* how many mirror nodes of the mirror document carry the class
Tagged(s, className) == Len(ElementsByClassName(s, className))

\* how often the mirror node of index x is a child in the mirror
Placements(s, x) ==
  LET RECURSIVE Sum(_)
      Sum(S) == IF S = {} THEN 0
                ELSE LET p == CHOOSE p \in S : TRUE
                     IN Len(SelectSeq(s.kids[p], LAMBDA y : y = x)) + Sum(S \ {p})
  IN Sum(ShadowIds)

\* discovery has handed out at most one index, and so made at most one mirror node,
\* for each live node that had none, and no mirror node is in the mirror twice
DiscoversOnce(s) ==
  /\ s.nextIndex - nextIndex <= Cardinality({n \in Nodes : nodeIndex[n] = Null})
  /\ \A n \in Nodes : nodeIndex[n] # Null => s.nodeIndex[n] = nodeIndex[n]
  /\ \A m, n \in Nodes :
       (m # n /\ s.nodeIndex[m] # Null) => s.nodeIndex[m] # s.nodeIndex[n]
  /\ \A x \in Indices : Placements(s, x) <= 1

RECURSIVE NewLoopShrinks(_)
\* every pass of the loop over the new tags (lines 259-274) leaves fewer nodes tagged new
NewLoopShrinks(s) ==
  LET topNewNodes == ElementsByClassName(s, NewNodeClassName) IN
  \/ topNewNodes = <<>>
  \/ \A r \in {DiscoverQueue([s |-> s, newNodes |-> <<>>], <<topNewNodes[1]>>)} :
       /\ Tagged(r.s, NewNodeClassName) < Tagged(s, NewNodeClassName)
       /\ NewLoopShrinks(r.s)

RECURSIVE ClassLoopShrinks(_, _)
\* every pass of the loops over the moved and the updated tags (lines 277-281, 284-288)
\* leaves fewer nodes with the tag
ClassLoopShrinks(s, className) ==
  LET found == ElementsByClassName(s, className) IN
  \/ found = <<>>
  \/ \A s1 \in {RemoveAllClasses(s, found[1])} :
       /\ Tagged(s1, className) < Tagged(s, className)
       /\ ClassLoopShrinks(s1, className)

RECURSIVE FinalLoopShrinks(_, _)
\* every pass of the loop over the final tags (lines 189-191) leaves fewer nodes tagged
\* final, and the loop ends with the classes the clean-up t gives the mirror document
FinalLoopShrinks(s, t) ==
  LET finalNodes == ElementsByClassName(s, FinalClassName) IN
  IF finalNodes = <<>>
  THEN \A x \in Descendants(s.kids, ShadowDomRoot) : s.classes[x] = t.classes[x]
  ELSE \A s1 \in {RemoveClass(s, finalNodes[1], FinalClassName)} :
         /\ Tagged(s1, FinalClassName) < Tagged(s, FinalClassName)
         /\ FinalLoopShrinks(s1, t)

\* the loops of getMutationSummary and of the clean-up, run from the state s the records
\* left, all shrink their tag
ExtractionShrinks(s) ==
  \A n \in {CollectNewNodes([s |-> s, newNodes |-> <<>>])} :
  \A m \in {CollectByClass([s |-> n.s, nodes |-> <<>>], MovedNodeClassName)} :
  \A u \in {CollectByClass([s |-> m.s, nodes |-> <<>>], UpdatedNodeClassName)} :
    /\ NewLoopShrinks(s)
    /\ ClassLoopShrinks(n.s, MovedNodeClassName)
    /\ ClassLoopShrinks(m.s, UpdatedNodeClassName)
    /\ u.s = GetMutationSummary(s).s
    /\ FinalLoopShrinks(u.s, CleanUp(u.s))

\* C32 (termination): applyMutationBatch on the queued batch and the page as it is ends
\* and returns a summary; discovery makes at most one mirror node for each live node that
\* had none; every pass of the loops over the new, moved, updated and final tags takes
\* the tag from at least one node.
C32_Termination ==
  \A s \in {AfterRecords} :
    /\ ~s.threw
    /\ DiscoversOnce(s)
    /\ ExtractionShrinks(s)

====
